---- MODULE Spec2Model ----
(***************************************************************************)
(* A model of render (src/example/render.py): the command-line driver      *)
(* main(), the input resolution and include/exclude filtering it performs, *)
(* render(), write() and the side-by-side compositor concatenate().        *)
(*                                                                         *)
(* Strings are sequences of one-character strings, so that sorting keys,   *)
(* regular expressions, brace expansion and globbing are computed the way  *)
(* the code and the libraries it calls compute them.                       *)
(***************************************************************************)
EXTENDS Integers, Sequences, FiniteSets, TLC

VARIABLES
    pc,          \* position of main(): the statement about to run
    args,        \* the parsed command line (argparse namespace)
    stdin,       \* lines still unread on standard input
    listing,     \* order in which the filesystem returns directory entries
    patterns,    \* main's `patterns`
    paths,       \* main's `paths`
    candidates,  \* main's `candidates`
    queue,       \* main's `queue`
    size,        \* main's `size`
    frames,      \* the frames found by the frameset probe
    site,        \* which call of render is running: "browser", "sbs" or "plain"
    idx,         \* number (from 1) of the queue entry being rendered
    rpc,         \* position inside render(), "idle" outside it
    document,    \* main's `document`
    documents,   \* main's `documents`
    temps,       \* main's `temps`, by the names of the temporary files
    filler,      \* concatenate's `temp` and `page`
    disk,        \* the output file, its parent directory, the temporary files
    exc,         \* message of the exception propagating out of main, "" if none
    out,         \* what has been printed on the terminal
    exitCode,    \* exit status of the process, -1 while it runs
    interrupts,  \* number of SIGINTs delivered so far
    answer       \* main's `s`: the line last read at a prompt

inputVars == <<stdin, listing>>
resolveVars == <<patterns, paths, candidates>>
renderVars == <<site, idx, rpc, document, documents>>
sbsVars == <<temps, filler>>
vars == <<pc, args, stdin, listing, patterns, paths, candidates, queue, size, frames,
          site, idx, rpc, document, documents, temps, filler, disk, exc, out,
          exitCode, interrupts, answer>>

(***************************************************************************)
(* Bounds of the model.                                                    *)
(***************************************************************************)
MaxPatterns == 2     \* longest list of INPUT patterns explored
MaxFilters == 2      \* longest list of --include / --exclude patterns explored
MaxPages == 2        \* most pages one rendered input has
MaxFrames == 4       \* most frames the probed frameset has
MaxInterrupts == 1   \* most SIGINTs delivered in one run

(***************************************************************************)
(* Characters and strings.                                                 *)
(***************************************************************************)
\* ord(c) for the characters that occur in the model
Ord(c) ==
    CASE c = " " -> 32 [] c = "$" -> 36 [] c = "*" -> 42 [] c = "," -> 44
      [] c = "-" -> 45 [] c = "." -> 46 [] c = "/" -> 47
      [] c = "0" -> 48 [] c = "1" -> 49 [] c = "2" -> 50
      [] c = "B" -> 66 [] c = "\\" -> 92 [] c = "^" -> 94
      [] c = "a" -> 97 [] c = "b" -> 98 [] c = "d" -> 100 [] c = "h" -> 104
      [] c = "p" -> 112 [] c = "t" -> 116 [] c = "z" -> 122
      [] c = "{" -> 123 [] c = "|" -> 124 [] c = "}" -> 125

IsDigit(c) == c \in {"0", "1", "2"}

\* str.lower() / casefold of one character
Lower(c) ==
    CASE c = "B" -> "b" [] c = "N" -> "n" [] c = "O" -> "o" [] c = "Y" -> "y"
      [] OTHER -> c

\* s.lower()
LowerStr(s) == [i \in 1..Len(s) |-> Lower(s[i])]

\* s.startswith(prefix)
StartsWith(s, prefix) ==
    /\ Len(s) >= Len(prefix)
    /\ SubSeq(s, 1, Len(prefix)) = prefix

\* pattern.startswith(("http", "https"))
IsURL(s) == StartsWith(s, <<"h", "t", "t", "p">>)

\* str.strip(): leading and trailing blanks removed
RECURSIVE LStrip(_)
LStrip(s) == IF s # <<>> /\ Head(s) = " " THEN LStrip(Tail(s)) ELSE s

RECURSIVE RStrip(_)
RStrip(s) ==
    IF s # <<>> /\ s[Len(s)] = " " THEN RStrip(SubSeq(s, 1, Len(s) - 1)) ELSE s

Strip(s) == RStrip(LStrip(s))

\* [f(x) for x in seq]
StripAll(lines) == [i \in 1..Len(lines) |-> Strip(lines[i])]

\* concatenation of a sequence of sequences
RECURSIVE Flatten(_)
Flatten(ss) == IF ss = <<>> THEN <<>> ELSE Head(ss) \o Flatten(Tail(ss))

\* index of the first occurrence of character c in s at or after position i, 0 if none
RECURSIVE Find(_, _, _)
Find(s, c, i) ==
    IF i > Len(s) THEN 0 ELSE IF s[i] = c THEN i ELSE Find(s, c, i + 1)

\* s.split(c)
RECURSIVE Split(_, _)
Split(s, c) ==
    LET k == Find(s, c, 1)
    IN IF k = 0 THEN <<s>>
       ELSE <<SubSeq(s, 1, k - 1)>> \o Split(SubSeq(s, k + 1, Len(s)), c)

(***************************************************************************)
(* natsort: natsorted(xs, alg=ns.IGNORECASE).  The key of a string is the  *)
(* tuple of its chunks, text chunks casefolded and runs of digits read as  *)
(* integers; a string that starts with a digit gets a leading empty text   *)
(* chunk.  Keys compare as Python tuples; the sort is stable.              *)
(***************************************************************************)
\* length of the longest prefix of s made of digits (d = TRUE) or of non-digits
RECURSIVE SpanLen(_, _)
SpanLen(s, d) ==
    IF s = <<>> \/ IsDigit(Head(s)) # d THEN 0 ELSE 1 + SpanLen(Tail(s), d)

\* int(s) of a run of digits
RECURSIVE ToInt(_)
ToInt(s) ==
    IF s = <<>> THEN 0
    ELSE 10 * ToInt(SubSeq(s, 1, Len(s) - 1)) + (Ord(s[Len(s)]) - 48)

\* codes of the casefolded characters of a text chunk
TextChunk(s) == [i \in 1..Len(s) |-> Ord(Lower(s[i]))]

\* the chunks of s, each a sequence of integers: a text chunk is its character
\* codes, a number chunk is the one-element sequence of its value
RECURSIVE Chunks(_)
Chunks(s) ==
    IF s = <<>> THEN <<>>
    ELSE LET d == IsDigit(Head(s))
             n == SpanLen(s, d)
             chunk == SubSeq(s, 1, n)
             rest == SubSeq(s, n + 1, Len(s))
         IN <<IF d THEN <<ToInt(chunk)>> ELSE TextChunk(chunk)>> \o Chunks(rest)

natsort_key(s) ==
    IF s # <<>> /\ IsDigit(Head(s)) THEN <<(<<>>)>> \o Chunks(s) ELSE Chunks(s)

\* a < b for sequences of integers, as Python compares strings and tuples
RECURSIVE IntSeqLess(_, _)
IntSeqLess(a, b) ==
    IF b = <<>> THEN FALSE
    ELSE IF a = <<>> THEN TRUE
    ELSE IF Head(a) # Head(b) THEN Head(a) < Head(b)
    ELSE IntSeqLess(Tail(a), Tail(b))

\* k1 < k2 for two keys (tuples of chunks)
RECURSIVE KeyLess(_, _)
KeyLess(k1, k2) ==
    IF k2 = <<>> THEN FALSE
    ELSE IF k1 = <<>> THEN TRUE
    ELSE IF Head(k1) # Head(k2) THEN IntSeqLess(Head(k1), Head(k2))
    ELSE KeyLess(Tail(k1), Tail(k2))

\* the key of sorted(): the string itself
LexKey(s) == <<[i \in 1..Len(s) |-> Ord(s[i])]>>

\* line 115 and 127: the key of natsorted(..., alg=ns.IGNORECASE)
SortKey(s) == natsort_key(s)

\* x inserted into the sorted sequence xs after every element not greater than it
RECURSIVE InsertSorted(_, _)
InsertSorted(xs, x) ==
    IF xs = <<>> THEN <<x>>
    ELSE IF KeyLess(SortKey(x), SortKey(Head(xs))) THEN <<x>> \o xs
    ELSE <<Head(xs)>> \o InsertSorted(Tail(xs), x)

RECURSIVE natsorted(_)
natsorted(xs) ==
    IF xs = <<>> THEN <<>>
    ELSE InsertSorted(natsorted(SubSeq(xs, 1, Len(xs) - 1)), xs[Len(xs)])

(***************************************************************************)
(* braceexpand: "{x,y}z" expands to "xz", "yz"; a group without a comma is *)
(* literal.  (Nested groups and ranges are outside the patterns modelled.) *)
(***************************************************************************)
RECURSIVE braceexpand(_)
braceexpand(p) ==
    LET open == Find(p, "{", 1)
        close == IF open = 0 THEN 0 ELSE Find(p, "}", open)
        inner == SubSeq(p, open + 1, close - 1)
        alts == Split(inner, ",")
    IN IF open = 0 \/ close = 0 \/ Len(alts) < 2 THEN <<p>>
       ELSE Flatten([i \in 1..Len(alts) |->
                braceexpand(SubSeq(p, 1, open - 1) \o alts[i]
                            \o SubSeq(p, close + 1, Len(p)))])

(***************************************************************************)
(* The filesystem the runs see: a working directory holding three files,   *)
(* a directory with two files, and a dangling symbolic link.               *)
(***************************************************************************)
F_a2 == <<"a", "2">>
F_a10 == <<"a", "1", "0">>
F_B1 == <<"B", "1">>
D_d == <<"d">>
F_d2 == <<"d", "/", "2">>
F_d10 == <<"d", "/", "1", "0">>
L_z == <<"z">>

\* entries of the working directory
TopEntries == {F_a2, F_a10, F_B1, D_d, L_z}

\* entries of the directory d, by their paths
DirEntries == {F_d2, F_d10}

\* every order in which the elements of the set S can be listed
Orders(S) ==
    {s \in [1..Cardinality(S) -> S] : \A i, j \in 1..Cardinality(S) : s[i] = s[j] => i = j}

\* os.path.isfile
isfile(p) == p \in {F_a2, F_a10, F_B1, F_d2, F_d10}

\* os.path.isdir
isdir(p) == p = D_d

\* fnmatch of a name against a pattern in which "*" matches any run of characters
\* other than "/"
RECURSIVE fnmatch(_, _)
fnmatch(name, pat) ==
    IF pat = <<>> THEN name = <<>>
    ELSE IF Head(pat) = "*"
         THEN \/ fnmatch(name, Tail(pat))
              \/ name # <<>> /\ Head(name) # "/" /\ fnmatch(Tail(name), pat)
         ELSE name # <<>> /\ Head(name) = Head(pat) /\ fnmatch(Tail(name), Tail(pat))

\* glob(expression, recursive=True): the entries of the working directory that
\* match, in the order the filesystem lists them
glob(expression, order) ==
    SelectSeq(order, LAMBDA e: e \in TopEntries /\ fnmatch(e, expression))

\* the files os.walk(path) finds, joined to their directory, in listing order
walk(path, order) ==
    SelectSeq(order, LAMBDA e: e \notin TopEntries
                               /\ StartsWith(e, path \o <<"/">>))

(***************************************************************************)
(* re: the regular expressions main builds from --include and --exclude.   *)
(***************************************************************************)
\* characters re.escape puts a backslash before
IsSpecial(c) == c \in {"$", "*", ".", "\\", "^", "{", "|", "}", "-", " "}

\* re.escape(s)
RECURSIVE re_escape(_)
re_escape(s) ==
    IF s = <<>> THEN <<>>
    ELSE (IF IsSpecial(Head(s)) THEN <<"\\", Head(s)>> ELSE <<Head(s)>>)
         \o re_escape(Tail(s))

\* s.replace("\*", ".*")
RECURSIVE ReplaceStar(_)
ReplaceStar(s) ==
    IF s = <<>> THEN <<>>
    ELSE IF StartsWith(s, <<"\\", "*">>)
         THEN <<".", "*">> \o ReplaceStar(SubSeq(s, 3, Len(s)))
         ELSE IF Head(s) = "\\" /\ Len(s) >= 2
              THEN <<s[1], s[2]>> \o ReplaceStar(SubSeq(s, 3, Len(s)))
              ELSE <<Head(s)>> \o ReplaceStar(Tail(s))

\* re.escape(i).replace("\*", ".*")
Compile(pattern) == ReplaceStar(re_escape(pattern))

\* "|".join(rs)
RECURSIVE Join(_)
Join(rs) ==
    IF rs = <<>> THEN <<>>
    ELSE IF Len(rs) = 1 THEN rs[1]
    ELSE rs[1] \o <<"|">> \o Join(Tail(rs))

\* r"^" + r"|".join(rs) + "$"
Anchored(rs) == <<"^">> \o Join(rs) \o <<"$">>

\* the regular expression split at its top-level "|" into alternatives
RECURSIVE Alternatives(_, _)
Alternatives(r, acc) ==
    IF r = <<>> THEN <<acc>>
    ELSE IF Head(r) = "\\" /\ Len(r) >= 2
         THEN Alternatives(SubSeq(r, 3, Len(r)), acc \o <<r[1], r[2]>>)
    ELSE IF Head(r) = "|" THEN <<acc>> \o Alternatives(Tail(r), <<>>)
    ELSE Alternatives(Tail(r), Append(acc, Head(r)))

\* whether the alternative r matches s from position pos (characters before pos
\* consumed): "^" and "$" assert the ends of s, ".*" is any run of characters,
\* a backslash makes the next character literal
RECURSIVE MatchHere(_, _, _)
MatchHere(r, s, pos) ==
    IF r = <<>> THEN TRUE
    ELSE IF Head(r) = "^" THEN pos = 0 /\ MatchHere(Tail(r), s, pos)
    ELSE IF Head(r) = "$" THEN pos = Len(s) /\ MatchHere(Tail(r), s, pos)
    ELSE IF StartsWith(r, <<".", "*">>)
         THEN \E k \in pos..Len(s) : MatchHere(SubSeq(r, 3, Len(r)), s, k)
    ELSE IF Head(r) = "\\" /\ Len(r) >= 2
         THEN /\ pos < Len(s)
              /\ s[pos + 1] = r[2]
              /\ MatchHere(SubSeq(r, 3, Len(r)), s, pos + 1)
    ELSE /\ pos < Len(s)
         /\ s[pos + 1] = Head(r)
         /\ MatchHere(Tail(r), s, pos + 1)

\* re.search(r, s) is not None
re_search(r, s) ==
    LET alts == Alternatives(r, <<>>)
    IN \E a \in 1..Len(alts), start \in 0..Len(s) : MatchHere(alts[a], s, start)

(***************************************************************************)
(* main, lines 83-145: from the command line to the queue.                 *)
(***************************************************************************)
\* lines 84-87: args.INPUT, else the stripped lines of standard input
Inputs(a, in) == IF a.INPUT # <<>> THEN a.INPUT ELSE StripAll(in)

\* lines 90-93 and 96-99: the compiled --include / --exclude patterns
Compiled(ps) == [i \in 1..Len(ps) |-> Compile(ps[i])]

\* lines 111-115: what one pattern adds to paths
PatternPaths(pattern, order) ==
    (IF IsURL(pattern) THEN <<pattern>> ELSE <<>>)
    \o (IF pattern # <<>>
        THEN LET es == braceexpand(pattern)
             IN Flatten([k \in 1..Len(es) |-> natsorted(glob(es[k], order))])
        ELSE <<>>)

\* lines 109-115
GlobPaths(ps, order) == Flatten([i \in 1..Len(ps) |-> PatternPaths(ps[i], order)])

\* lines 120-130: whether a path is neither file, URL nor directory
Unrecognized(path) == ~(isfile(path) \/ IsURL(path)) /\ ~isdir(path)

\* lines 120-128: what one path adds to candidates
PathCandidates(path, order) ==
    IF isfile(path) \/ IsURL(path) THEN <<path>> ELSE natsorted(walk(path, order))

\* line 137: the candidate is skipped for want of an include match
SkippedByInclude(includes, candidate) ==
    includes # <<>> /\ ~re_search(Anchored(includes), candidate)

\* line 141: the candidate is skipped for an exclude match
SkippedByExclude(excludes, candidate) ==
    excludes # <<>> /\ re_search(Anchored(excludes), candidate)

\* lines 133-145
FilterQueue(cs, includes, excludes) ==
    SelectSeq(cs, LAMBDA c: ~SkippedByInclude(includes, c)
                            /\ ~SkippedByExclude(excludes, c))

\* raise RuntimeError(message)
Raise(message) ==
    /\ exc' = message
    /\ pc' = "raised"

\* lines 83-106
ReadInputs ==
    /\ pc = "inputs"
    /\ LET inputs == Inputs(args, stdin)
           left == IF args.INPUT # <<>> THEN stdin ELSE <<>>
       IN /\ patterns' = IF inputs = <<(<<"-">>)>> THEN left ELSE inputs
          /\ stdin' = IF inputs = <<(<<"-">>)>> THEN <<>> ELSE left
    /\ pc' = "glob"
    /\ UNCHANGED answer
    /\ UNCHANGED <<args, listing, paths, candidates, queue, size, frames, renderVars,
                   sbsVars, disk, exc, out, exitCode, interrupts>>

\* lines 108-115
GlobPatterns ==
    /\ pc = "glob"
    /\ paths' = GlobPaths(patterns, listing)
    /\ pc' = "candidates"
    /\ UNCHANGED answer
    /\ UNCHANGED <<args, inputVars, patterns, candidates, queue, size, frames,
                   renderVars, sbsVars, disk, exc, out, exitCode, interrupts>>

\* lines 117-130
CollectCandidates ==
    /\ pc = "candidates"
    /\ IF \E i \in 1..Len(paths) : Unrecognized(paths[i])
       THEN /\ Raise("Could not recognize.")
            /\ UNCHANGED candidates
       ELSE /\ candidates' =
                   Flatten([i \in 1..Len(paths) |-> PathCandidates(paths[i], listing)])
            /\ pc' = "filter"
            /\ UNCHANGED exc
    /\ UNCHANGED answer
    /\ UNCHANGED <<args, inputVars, patterns, paths, queue, size, frames, renderVars,
                   sbsVars, disk, out, exitCode, interrupts>>

\* lines 132-145
FilterCandidates ==
    /\ pc = "filter"
    /\ queue' = FilterQueue(candidates, Compiled(args.include), Compiled(args.exclude))
    /\ pc' = "validate"
    /\ UNCHANGED answer
    /\ UNCHANGED <<args, inputVars, resolveVars, size, frames, renderVars, sbsVars,
                   disk, exc, out, exitCode, interrupts>>

(***************************************************************************)
(* Pages and documents.  Lengths are in CSS pixels.  A page's content is   *)
(* the list of what is drawn on it: the page numbered `page` of the input  *)
(* numbered `src` (0 for the blank page), shifted right by `x`.            *)
(***************************************************************************)
Max(a, b) == IF a >= b THEN a ELSE b

\* the size of the page that blank(size) renders, for a CSS page size
PageSize(name) ==
    CASE name = "letter landscape" -> [name |-> name, w |-> 1056, h |-> 816]
      [] name = "letter portrait" -> [name |-> name, w |-> 816, h |-> 1056]
      [] name = "A4 landscape" -> [name |-> name, w |-> 1122, h |-> 793]
      [] name = "A4 portrait" -> [name |-> name, w |-> 793, h |-> 1122]

\* "{}px {}px".format(width, height)
PixelSize(width, height) == [name |-> "px", w |-> width, h |-> height]

\* blank(size).pages[0]
blank(sz) == [w |-> sz.w, h |-> sz.h, content |-> <<>>]

\* the document HTML(...).render(...) lays out for input src: n pages of size sz
Rendered(src, n, sz) ==
    [ok |-> TRUE,
     pages |-> [j \in 1..n |->
                  [w |-> sz.w, h |-> sz.h,
                   content |-> <<[src |-> src, page |-> j, x |-> 0]>>]]]

\* render's `return None`
None == [ok |-> FALSE, pages |-> <<>>]

\* write(): the pages of the documents, in order
AllPages(docs) == Flatten([i \in 1..Len(docs) |-> docs[i].pages])

\* the merge with expand=False: the page keeps its size
mergeUnexpanded(left, right, tx) ==
    [left EXCEPT !.content =
        @ \o [k \in 1..Len(right.content) |-> [right.content[k] EXCEPT !.x = @ + tx]]]

\* PageObject.mergeTranslatedPage(right, tx, 0, expand=True)
mergeTranslatedPage(left, right, tx) ==
    [w |-> Max(left.w, tx + right.w),
     h |-> Max(left.h, right.h),
     content |-> left.content
                 \o [k \in 1..Len(right.content) |->
                       [right.content[k] EXCEPT !.x = @ + tx]]]

\* lines 324 and 328: page i (from 0) of the reader, else the blank page
PageOrBlank(reader, i, page) == IF i < Len(reader) THEN reader[i + 1] ELSE page

\* lines 327-329: the pages right of the leftmost merged onto it, in order
RECURSIVE MergeRight(_, _, _, _)
MergeRight(left, rest, i, page) ==
    IF rest = <<>> THEN left
    ELSE MergeRight(mergeTranslatedPage(left, PageOrBlank(Head(rest), i, page), left.w),
                    Tail(rest), i, page)

\* the page count of the shortest reader
RECURSIVE MinNumPages(_)
MinNumPages(readers) ==
    IF Len(readers) = 1 THEN Len(Head(readers))
    ELSE LET m == MinNumPages(Tail(readers))
         IN IF Len(Head(readers)) <= m THEN Len(Head(readers)) ELSE m

\* max(map(lambda r: r.getNumPages(), readers))
RECURSIVE MaxNumPages(_)
MaxNumPages(readers) ==
    IF readers = <<>> THEN 0 ELSE Max(Len(Head(readers)), MaxNumPages(Tail(readers)))

\* lines 318-332: the pages added to the writer
MergedPages(readers, page) ==
    [n \in 1..MaxNumPages(readers) |->
        MergeRight(PageOrBlank(readers[1], n - 1, page), Tail(readers), n - 1, page)]

\* lines 311-315: the blank page, of the size of the first input's first page
FillerPage(readers) ==
    [blank(PixelSize(readers[1][1].w, readers[1][1].h)) EXCEPT
        !.content = <<[src |-> 0, page |-> 1, x |-> 0]>>]

(***************************************************************************)
(* main, lines 62-81 and 147-200: the checks before rendering.             *)
(***************************************************************************)
\* sys.exit(code)
Exit(code) ==
    /\ pc' = "exited"
    /\ exitCode' = code

\* cancel(code), after `printed` has been printed
cancel(printed, code) ==
    /\ out' = Append(printed, "Rendering cancelled.")
    /\ Exit(code)

\* lines 62-76: argparse's version action prints the version and exits
Parse ==
    /\ pc = "parse"
    /\ IF args.version
       THEN /\ out' = Append(out, "version")
            /\ Exit(0)
       ELSE /\ pc' = "inputs"
            /\ UNCHANGED <<out, exitCode>>
    /\ UNCHANGED answer
    /\ UNCHANGED <<args, inputVars, resolveVars, queue, size, frames, renderVars,
                   sbsVars, disk, exc, interrupts>>

\* lines 147-161: the error for a queue of n entries, "" if none
CountError(side_by_side, browser, n) ==
    IF side_by_side /\ n < 2 THEN "Too few files to render side by side."
    ELSE IF side_by_side /\ n > 3 THEN "Too many files to render side by side."
    ELSE IF browser /\ n # 1 THEN "Can only render one input as browser would."
    ELSE ""

\* lines 147-161
Validate ==
    /\ pc = "validate"
    /\ LET message == CountError(args.side_by_side, args.browser, Len(queue))
       IN IF message # ""
          THEN Raise(message)
          ELSE /\ pc' = "overwrite"
               /\ UNCHANGED exc
    /\ UNCHANGED answer
    /\ UNCHANGED <<args, inputVars, resolveVars, queue, size, frames, renderVars,
                   sbsVars, disk, out, exitCode, interrupts>>

\* what the user may type at a prompt
Answers ==
    {<<"y">>, <<"Y", "e", "s">>, <<"n">>, <<"N", "O">>, <<" ", "y">>, <<"q">>}

\* ["y", "yes"]
Yes == {<<"y">>, <<"y", "e", "s">>}

\* ["n", "no"]
No == {<<"n">>, <<"n", "o">>}

\* a driver that goes on to write without looking at the output
OverwriteUnchecked ==
    /\ pc = "overwrite"
    /\ pc' = "mkdir"
    /\ UNCHANGED <<args, inputVars, resolveVars, queue, size, frames, renderVars,
                   sbsVars, disk, exc, out, exitCode, interrupts, answer>>

\* lines 165-167
Overwrite ==
    /\ pc = "overwrite"
    /\ IF ~args.force /\ disk.output.exists
       THEN IF args.INPUT = <<>>
            THEN Raise("Output exists.")
            ELSE /\ pc' = "overwrite_prompt"
                 /\ UNCHANGED exc
       ELSE /\ pc' = "mkdir"
            /\ UNCHANGED exc
    /\ UNCHANGED answer
    /\ UNCHANGED <<args, inputVars, resolveVars, queue, size, frames, renderVars,
                   sbsVars, disk, out, exitCode, interrupts>>

\* lines 168-173: one turn of the loop
OverwritePrompt ==
    /\ pc = "overwrite_prompt"
    /\ \E s \in Answers :
          /\ answer' = s
          /\ IF LowerStr(s) \in Yes
             THEN /\ pc' = "mkdir"
                  /\ UNCHANGED <<out, exitCode>>
             ELSE IF LowerStr(s) \in No
                  THEN cancel(out, 0)
                  ELSE UNCHANGED <<pc, out, exitCode>>
    /\ UNCHANGED <<args, inputVars, resolveVars, queue, size, frames, renderVars,
                   sbsVars, disk, exc, interrupts>>

\* lines 176-177
Mkdir ==
    /\ pc = "mkdir"
    /\ pc' = IF ~disk.dir THEN "create_prompt" ELSE "size"
    /\ UNCHANGED answer
    /\ UNCHANGED <<args, inputVars, resolveVars, queue, size, frames, renderVars,
                   sbsVars, disk, exc, out, exitCode, interrupts>>

\* lines 178-186: where control is after os.makedirs has succeeded
AfterMakedirs == "create_prompt"

\* lines 178-186: one turn of the loop
CreatePrompt ==
    /\ pc = "create_prompt"
    /\ \E s \in Answers, made \in BOOLEAN :
          /\ answer' = Strip(s)
          /\ IF LowerStr(Strip(s)) \in No
             THEN /\ cancel(out, 0)
                  /\ UNCHANGED <<disk, exc>>
             ELSE IF LowerStr(Strip(s)) \in Yes
                  THEN IF ~disk.dir /\ made
                       THEN /\ disk' = [disk EXCEPT !.dir = TRUE]
                            /\ pc' = AfterMakedirs
                            /\ UNCHANGED <<exc, out, exitCode>>
                       ELSE /\ Raise("Could not create.")
                            /\ UNCHANGED <<disk, out, exitCode>>
                  ELSE UNCHANGED <<pc, disk, exc, out, exitCode>>
    /\ UNCHANGED <<args, inputVars, resolveVars, queue, size, frames, renderVars,
                   sbsVars, interrupts>>

\* line 197: re.search(r"^[A-Za-z0-9\- ]+$", size), for the sizes explored
ValidSize(name) == name \in {"A4", "A4 portrait"}

\* lines 199-200
WithOrientation(name) == IF name = "A4" THEN "A4 landscape" ELSE name

\* lines 203, 234 and 283-284: where main goes once the size is known
Dispatch ==
    IF args.browser THEN "probe"
    ELSE IF args.side_by_side THEN "sbs_setup"
    ELSE IF queue = <<>> THEN "write_output"
    ELSE "render"

\* lines 188-200, and the choice of the rendering path
Size ==
    /\ pc = "size"
    /\ IF args.size = ""
       THEN /\ size' = PageSize(IF args.browser THEN "letter portrait"
                                ELSE "letter landscape")
            /\ pc' = Dispatch
            /\ UNCHANGED exc
       ELSE IF ~ValidSize(args.size)
            THEN /\ Raise("Invalid size.")
                 /\ UNCHANGED size
            ELSE /\ size' = PageSize(WithOrientation(args.size))
                 /\ pc' = Dispatch
                 /\ UNCHANGED exc
    /\ site' = "plain"
    /\ idx' = 1
    /\ documents' = <<>>
    /\ UNCHANGED answer
    /\ UNCHANGED <<args, inputVars, resolveVars, queue, frames, rpc, document,
                   sbsVars, disk, out, exitCode, interrupts>>

(***************************************************************************)
(* main, lines 202-231: browser mode and its frameset probe.  The probe    *)
(* runs inside try ... except:, which catches every exception, SystemExit  *)
(* included, and falls back to rendering the page itself.                  *)
(***************************************************************************)
\* the message excepthook prints for anything but a RuntimeError
Sorry == "Sorry, something's wrong!"

\* lines 219-223: the noframes handler starts render(queue[0], browser=True)
NoFrames ==
    /\ pc' = "render"
    /\ site' = "browser"
    /\ idx' = 1
    /\ rpc' = "idle"

\* the asserts without the upper limit on the frames
FramesAtLeastTwo(one, n) == one /\ 2 <= n

\* lines 211 and 213: the asserts on the framesets and frames found
FramesAccepted(one, n) == one /\ 2 <= n /\ n <= 3

\* the src attribute of the i-th frame of the probed page
FrameSrc(i) == IF i % 2 = 1 THEN <<"a", "2">> ELSE <<"B", "1">>

\* os.path.dirname(a)
RECURSIVE dirname(_)
dirname(a) ==
    IF a = <<>> THEN <<>>
    ELSE IF a[Len(a)] = "/" THEN SubSeq(a, 1, Len(a) - 1)
    ELSE dirname(SubSeq(a, 1, Len(a) - 1))

\* join(a, b) for a relative reference b: b beside a
join(a, b) == IF dirname(a) = <<>> THEN b ELSE dirname(a) \o <<"/">> \o b

\* lines 207-213: the page is fetched and searched for one frameset of 2 or 3 frames
ProbeFetch ==
    /\ pc = "probe"
    /\ \E fetched \in BOOLEAN, one \in BOOLEAN, n \in 0..MaxFrames, src \in BOOLEAN :
          IF fetched /\ FramesAccepted(one, n)
          THEN /\ frames' = [n |-> n, src |-> src]
               /\ pc' = "probe_adopt"
               /\ UNCHANGED <<site, idx, rpc>>
          ELSE /\ NoFrames
               /\ UNCHANGED frames
    /\ UNCHANGED answer
    /\ UNCHANGED <<args, inputVars, resolveVars, queue, size, document, documents,
                   sbsVars, disk, exc, out, exitCode, interrupts>>

\* lines 214-216
ProbeAdopt ==
    /\ pc = "probe_adopt"
    /\ size' = IF args.size = "" THEN PageSize("letter landscape") ELSE size
    /\ args' = [args EXCEPT !.side_by_side = TRUE]
    /\ pc' = "probe_queue"
    /\ UNCHANGED answer
    /\ UNCHANGED <<inputVars, resolveVars, queue, frames, renderVars, sbsVars, disk,
                   exc, out, exitCode, interrupts>>

\* line 217: a frame without src raises KeyError, which the except: catches
ProbeQueue ==
    /\ pc = "probe_queue"
    /\ IF frames.src
       THEN /\ queue' = [i \in 1..frames.n |-> join(queue[1], FrameSrc(i))]
            /\ pc' = "sbs_setup"
            /\ UNCHANGED <<site, idx, rpc>>
       ELSE /\ NoFrames
            /\ UNCHANGED queue
    /\ UNCHANGED answer
    /\ UNCHANGED <<args, inputVars, resolveVars, size, frames, document, documents,
                   sbsVars, disk, exc, out, exitCode, interrupts>>

(***************************************************************************)
(* render, lines 423-509.                                                  *)
(***************************************************************************)
\* the browser argument of the running call of render
BrowserCall == site = "browser" \/ (site = "sbs" /\ args.browser)

\* where main continues when render returns
AfterRender == IF site = "plain" THEN "collect" ELSE "check"

\* line 427
RenderStart ==
    /\ pc = "render"
    /\ rpc = "idle"
    /\ out' = Append(out, "Rendering...")
    /\ rpc' = "get"
    /\ UNCHANGED answer
    /\ UNCHANGED <<pc, args, inputVars, resolveVars, queue, size, frames, site, idx,
                   document, documents, sbsVars, disk, exc, exitCode, interrupts>>

\* lines 430-458 and 504: in browser mode a failure to fetch or lay out the page
\* raises RuntimeError; otherwise line 504 reads `title`, which only the other
\* branch assigns, and raises UnboundLocalError
RenderBrowser ==
    /\ pc = "render"
    /\ rpc = "get"
    /\ BrowserCall
    /\ \E fetched \in BOOLEAN :
          Raise(IF fetched THEN Sorry ELSE "Could not GET.")
    /\ rpc' = "idle"
    /\ UNCHANGED answer
    /\ UNCHANGED <<args, inputVars, resolveVars, queue, size, frames, site, idx,
                   document, documents, sbsVars, disk, out, exitCode, interrupts>>

\* what get() finds: no file, a file with a NUL byte, a blank file, or source text
Contents == {"missing", "binary", "blank", "text"}

\* lines 464-474
RenderGet ==
    /\ pc = "render"
    /\ rpc = "get"
    /\ ~BrowserCall
    /\ \E code \in Contents :
          CASE code = "missing" ->
                 /\ Raise("Could not find.")
                 /\ rpc' = "idle"
                 /\ UNCHANGED <<document, out>>
            [] code = "binary" ->
                 /\ out' = Append(out, "Could not render because binary.")
                 /\ document' = None
                 /\ rpc' = "idle"
                 /\ pc' = AfterRender
                 /\ UNCHANGED exc
            [] OTHER ->
                 /\ rpc' = IF code = "text" /\ ~args.no_color THEN "lexer" ELSE "html"
                 /\ UNCHANGED <<pc, document, exc, out>>
    /\ UNCHANGED answer
    /\ UNCHANGED <<args, inputVars, resolveVars, queue, size, frames, site, idx,
                   documents, sbsVars, disk, exitCode, interrupts>>

\* lines 475-477: get_lexer_for_filename finds a lexer or raises
RenderLexer ==
    /\ pc = "render"
    /\ rpc = "lexer"
    /\ \E found \in BOOLEAN : rpc' = IF found THEN "html" ELSE "guess"
    /\ UNCHANGED answer
    /\ UNCHANGED <<pc, args, inputVars, resolveVars, queue, size, frames, site, idx,
                   document, documents, sbsVars, disk, exc, out, exitCode, interrupts>>

\* lines 478-482: a lexer guessed from the shebang, else TextLexer
RenderGuess ==
    /\ pc = "render"
    /\ rpc = "guess"
    /\ rpc' = "html"
    /\ UNCHANGED answer
    /\ UNCHANGED <<pc, args, inputVars, resolveVars, queue, size, frames, site, idx,
                   document, documents, sbsVars, disk, exc, out, exitCode, interrupts>>

\* lines 483-509
RenderHTML ==
    /\ pc = "render"
    /\ rpc = "html"
    /\ \E n \in 1..MaxPages : document' = Rendered(idx, n, size)
    /\ out' = Append(out, "Rendered.")
    /\ rpc' = "idle"
    /\ pc' = AfterRender
    /\ UNCHANGED answer
    /\ UNCHANGED <<args, inputVars, resolveVars, queue, size, frames, site, idx,
                   documents, sbsVars, disk, exc, exitCode, interrupts>>

(***************************************************************************)
(* main, lines 223-291: what follows each call of render.                  *)
(***************************************************************************)
\* lines 224-225, 249-250, 258-259 and 267-268: if not document: cancel(1)
CheckDocument ==
    /\ pc = "check"
    /\ IF ~document.ok
       THEN cancel(out, 1)
       ELSE /\ pc' = IF site = "browser" THEN "write_output" ELSE "sbs_write"
            /\ UNCHANGED <<out, exitCode>>
    /\ UNCHANGED answer
    /\ UNCHANGED <<args, inputVars, resolveVars, queue, size, frames, renderVars,
                   sbsVars, disk, exc, interrupts>>

\* a loop that keeps whatever render returned
CollectedAlways(docs, doc) == Append(docs, doc)

\* lines 286-287: documents after `if document: documents.append(document)`
Collected(docs, doc) == IF doc.ok THEN Append(docs, doc) ELSE docs

\* lines 284-287: the document, if any, is kept and the loop goes on
PlainCollect ==
    /\ pc = "collect"
    /\ documents' = Collected(documents, document)
    /\ IF idx < Len(queue)
       THEN /\ idx' = idx + 1
            /\ pc' = "render"
       ELSE /\ pc' = "write_output"
            /\ UNCHANGED idx
    /\ UNCHANGED answer
    /\ UNCHANGED <<args, inputVars, resolveVars, queue, size, frames, site, rpc,
                   document, sbsVars, disk, exc, out, exitCode, interrupts>>

\* the file written by write_pdf or PdfFileWriter.write
Written(pages) == [exists |-> TRUE, fresh |-> TRUE, pages |-> pages]

\* lines 228-231 and 290-291, with write (512-524): nothing to write cancels the
\* run; a failure to write raises; otherwise the output is written and the run ends
WriteOutput ==
    /\ pc = "write_output"
    /\ LET docs == IF site = "browser" THEN <<document>> ELSE documents
       IN IF docs = <<>>
          THEN /\ cancel(out, 1)
               /\ UNCHANGED <<disk, exc>>
          ELSE \E written \in BOOLEAN :
                 IF written
                 THEN /\ disk' = [disk EXCEPT !.output = Written(AllPages(docs))]
                      /\ out' = out \o (IF site = "browser"
                                         THEN <<"Rendered output.", "Rendered output.">>
                                         ELSE <<"Rendered output.">>)
                      /\ Exit(0)
                      /\ UNCHANGED exc
                 ELSE /\ Raise(Sorry)
                      /\ UNCHANGED <<disk, out, exitCode>>
    /\ UNCHANGED answer
    /\ UNCHANGED <<args, inputVars, resolveVars, queue, size, frames, renderVars,
                   sbsVars, interrupts>>

(***************************************************************************)
(* main, lines 233-280: side by side.                                      *)
(***************************************************************************)
\* mkstemp(): a file name not in use
mkstemp(tmp) == CHOOSE k \in 1..(Cardinality(DOMAIN tmp) + 1) : k \notin DOMAIN tmp

\* the temporary files with the one named k holding pages
WithFile(tmp, k, pages) ==
    [j \in DOMAIN tmp \cup {k} |-> IF j = k THEN pages ELSE tmp[j]]

\* os.remove of the temporary file named k
Removed(tmp, k) == [j \in DOMAIN tmp \ {k} |-> tmp[j]]

\* lines 236-243
SbsSetup ==
    /\ pc = "sbs_setup"
    /\ size' = PixelSize(blank(size).w \div Len(queue), blank(size).h)
    /\ temps' = <<>>
    /\ site' = "sbs"
    /\ idx' = 1
    /\ pc' = "sbs_mkstemp"
    /\ UNCHANGED answer
    /\ UNCHANGED <<args, inputVars, resolveVars, queue, frames, rpc, document,
                   documents, filler, disk, exc, out, exitCode, interrupts>>

\* lines 246, 254 and 264: temps.append(mkstemp()), then render is called
SbsMkstemp ==
    /\ pc = "sbs_mkstemp"
    /\ temps' = Append(temps, mkstemp(disk.tmp))
    /\ disk' = [disk EXCEPT !.tmp = WithFile(@, mkstemp(disk.tmp), <<>>)]
    /\ pc' = "render"
    /\ UNCHANGED answer
    /\ UNCHANGED <<args, inputVars, resolveVars, queue, size, frames, renderVars,
                   filler, exc, out, exitCode, interrupts>>

\* lines 253-264: whether another input is rendered after the one numbered k
MoreInputs(k, n) == k = 1 \/ (k = 2 /\ n = 3)

\* lines 251, 260 and 269: write(temps[k][1], [document], False)
SbsWrite ==
    /\ pc = "sbs_write"
    /\ \E written \in BOOLEAN :
          IF written
          THEN /\ disk' = [disk EXCEPT !.tmp = WithFile(@, temps[idx], document.pages)]
               /\ IF MoreInputs(idx, Len(queue))
                  THEN /\ idx' = idx + 1
                       /\ pc' = "sbs_mkstemp"
                  ELSE /\ pc' = "concat_begin"
                       /\ UNCHANGED idx
               /\ UNCHANGED exc
          ELSE /\ Raise(Sorry)
               /\ UNCHANGED <<disk, idx>>
    /\ UNCHANGED answer
    /\ UNCHANGED <<args, inputVars, resolveVars, queue, size, frames, site, rpc,
                   document, documents, sbsVars, out, exitCode, interrupts>>

\* lines 274-276: what is left of the temporary files after the two calls of map,
\* whose iterators are never consumed
AfterMaps(tmp, ts) == tmp

\* lines 274-280
SbsFinish ==
    /\ pc = "sbs_finish"
    /\ disk' = [disk EXCEPT !.tmp = AfterMaps(@, temps)]
    /\ out' = Append(out, "Rendered output.")
    /\ Exit(0)
    /\ UNCHANGED answer
    /\ UNCHANGED <<args, inputVars, resolveVars, queue, size, frames, renderVars,
                   sbsVars, exc, interrupts>>

(***************************************************************************)
(* concatenate, lines 305-339.                                             *)
(***************************************************************************)
\* line 309: the pages of the inputs
Readers == [k \in 1..Len(temps) |-> disk.tmp[temps[k]]]

\* lines 309-315: the blank page is rendered into a temporary file of its own
ConcatBegin ==
    /\ pc = "concat_begin"
    /\ \E written \in BOOLEAN :
          /\ filler' = [id |-> mkstemp(disk.tmp), page |-> FillerPage(Readers)]
          /\ disk' = [disk EXCEPT !.tmp =
                         WithFile(@, mkstemp(disk.tmp),
                                  IF written THEN <<FillerPage(Readers)>> ELSE <<>>)]
          /\ IF written
             THEN /\ pc' = "concat_merge"
                  /\ UNCHANGED exc
             ELSE Raise(Sorry)
    /\ UNCHANGED answer
    /\ UNCHANGED <<args, inputVars, resolveVars, queue, size, frames, renderVars,
                   temps, out, exitCode, interrupts>>

\* lines 317-336
ConcatMerge ==
    /\ pc = "concat_merge"
    /\ \E written \in BOOLEAN :
          IF written
          THEN /\ disk' = [disk EXCEPT
                              !.output = Written(MergedPages(Readers, filler.page))]
               /\ pc' = "concat_cleanup"
               /\ UNCHANGED exc
          ELSE /\ Raise(Sorry)
               /\ UNCHANGED disk
    /\ UNCHANGED answer
    /\ UNCHANGED <<args, inputVars, resolveVars, queue, size, frames, renderVars,
                   sbsVars, out, exitCode, interrupts>>

\* lines 338-339
ConcatCleanup ==
    /\ pc = "concat_cleanup"
    /\ disk' = [disk EXCEPT !.tmp = Removed(@, filler.id)]
    /\ pc' = "sbs_finish"
    /\ UNCHANGED answer
    /\ UNCHANGED <<args, inputVars, resolveVars, queue, size, frames, renderVars,
                   sbsVars, exc, out, exitCode, interrupts>>

(***************************************************************************)
(* The SIGINT handler (lines 54-60) and excepthook (lines 356-367).        *)
(***************************************************************************)
\* whether main is inside a try whose bare except: catches SystemExit
InBareExcept ==
    \/ pc \in {"probe", "probe_adopt", "probe_queue"}
    \/ pc = "render" /\ rpc \in {"lexer", "guess"}

\* lines 55-57: the handler prints a blank line and calls cancel(1), whose
\* sys.exit raises SystemExit where main was interrupted
Interrupt ==
    /\ pc # "exited"
    /\ interrupts < MaxInterrupts
    /\ interrupts' = interrupts + 1
    /\ out' = out \o <<"", "Rendering cancelled.">>
    /\ IF InBareExcept
       THEN /\ IF pc = "render"
               THEN /\ rpc' = IF rpc = "lexer" THEN "guess" ELSE "html"
                    /\ UNCHANGED <<pc, site, idx>>
               ELSE NoFrames
            /\ UNCHANGED exitCode
       ELSE /\ Exit(1)
            /\ UNCHANGED <<site, idx, rpc>>
    /\ UNCHANGED answer
    /\ UNCHANGED <<args, inputVars, resolveVars, queue, size, frames, document,
                   documents, sbsVars, disk, exc>>

\* lines 356-364: the message is printed, then cancel(1)
excepthook ==
    /\ pc = "raised"
    /\ cancel(Append(out, exc), 1)
    /\ UNCHANGED answer
    /\ UNCHANGED <<args, inputVars, resolveVars, queue, size, frames, renderVars,
                   sbsVars, disk, exc, interrupts>>

(***************************************************************************)
(* Initial states and specifications.                                      *)
(***************************************************************************)
\* sequences over S of length at most n
SeqsUpTo(S, n) == UNION {[1..k -> S] : k \in 0..n}

\* the orders in which the filesystem may list its entries
Listings == {t \o d : t \in Orders(TopEntries), d \in Orders(DirEntries)}

\* an output file that was there before the run, or none
OutputFile(exists) == [exists |-> exists, fresh |-> FALSE, pages |-> <<>>]

\* the locals of main and render before they are assigned
InitLocals ==
    /\ patterns = <<>>
    /\ paths = <<>>
    /\ candidates = <<>>
    /\ queue = <<>>
    /\ size = PageSize("letter landscape")
    /\ frames = [n |-> 0, src |-> TRUE]
    /\ site = "plain"
    /\ idx = 1
    /\ rpc = "idle"
    /\ document = None
    /\ documents = <<>>
    /\ temps = <<>>
    /\ filler = [id |-> 0, page |-> blank(PageSize("letter landscape"))]
    /\ exc = ""
    /\ out = <<>>
    /\ exitCode = -1
    /\ interrupts = 0
    /\ answer = <<>>

\* the command lines the runs of main start from
CommandLines ==
    {a \in [browser : BOOLEAN, force : BOOLEAN, no_color : BOOLEAN,
            include : {<<>>}, exclude : {<<>>, <<F_a10>>}, side_by_side : BOOLEAN,
            INPUT : {<<>>, <<(<<"-">>)>>, <<F_a2>>, <<(<<"a", "*">>)>>,
                     <<(<<"a", "*">>), F_B1>>, <<(<<"a", "*">>), D_d>>},
            size : {"", "A4", "A4;"}, version : BOOLEAN] :
        /\ a.version => a = [browser |-> FALSE, force |-> FALSE, no_color |-> FALSE,
                             include |-> <<>>, exclude |-> <<>>, side_by_side |-> FALSE,
                             INPUT |-> <<>>, size |-> "", version |-> TRUE]
        /\ a.exclude # <<>> => a.INPUT = <<(<<"a", "*">>), D_d>>
        /\ a.size # "" => ~a.no_color /\ ~a.force}

\* a run of main, from the registration of the SIGINT handler (line 60)
Init ==
    /\ pc = "parse"
    /\ args \in CommandLines
    /\ stdin \in IF args.INPUT \in {<<>>, <<(<<"-">>)>>}
                 THEN {<<>>, <<(<<"a", "*", " ">>), (<<" ", "B", "1">>)>>}
                 ELSE {<<>>}
    /\ listing = <<F_a10, L_z, F_B1, D_d, F_a2, F_d10, F_d2>>
    /\ disk \in {d \in [output : {OutputFile(FALSE), OutputFile(TRUE)},
                        dir : BOOLEAN, tmp : {<<>>}] : d.output.exists => d.dir}
    /\ InitLocals

Next ==
    \/ Parse
    \/ ReadInputs
    \/ GlobPatterns
    \/ CollectCandidates
    \/ FilterCandidates
    \/ Validate
    \/ Overwrite
    \/ OverwritePrompt
    \/ Mkdir
    \/ CreatePrompt
    \/ Size
    \/ ProbeFetch
    \/ ProbeAdopt
    \/ ProbeQueue
    \/ RenderStart
    \/ RenderBrowser
    \/ RenderGet
    \/ RenderLexer
    \/ RenderGuess
    \/ RenderHTML
    \/ CheckDocument
    \/ PlainCollect
    \/ WriteOutput
    \/ SbsSetup
    \/ SbsMkstemp
    \/ SbsWrite
    \/ SbsFinish
    \/ ConcatBegin
    \/ ConcatMerge
    \/ ConcatCleanup
    \/ Interrupt
    \/ excepthook

Spec == Init /\ [][Next]_vars

(***************************************************************************)
(* Input resolution alone (lines 83-145), over lists of patterns and       *)
(* every listing order of the filesystem.                                  *)
(***************************************************************************)
\* a command line that only names inputs and filters
Plain(INPUT, include, exclude) ==
    [browser |-> FALSE, force |-> FALSE, no_color |-> FALSE, include |-> include,
     exclude |-> exclude, side_by_side |-> FALSE, INPUT |-> INPUT, size |-> "",
     version |-> FALSE]

\* the INPUT patterns explored
InputPatterns ==
    {<<"a", "*">>, <<"{", "B", ",", "a", "}", "*">>, D_d, <<"*">>,
     <<"h", "t", "t", "p">>}

InitResolve ==
    /\ pc = "inputs"
    /\ args \in {Plain(i, <<>>, <<>>) : i \in SeqsUpTo(InputPatterns, MaxPatterns)}
    /\ stdin = <<>>
    /\ listing \in Listings
    /\ disk = [output |-> OutputFile(FALSE), dir |-> TRUE, tmp |-> <<>>]
    /\ InitLocals

NextResolve ==
    \/ ReadInputs
    \/ GlobPatterns
    \/ CollectCandidates
    \/ FilterCandidates

SpecResolve == InitResolve /\ [][NextResolve]_vars

(***************************************************************************)
(* Filtering alone (lines 89-99 and 132-145), over lists of include and    *)
(* exclude patterns.                                                       *)
(***************************************************************************)
\* the --include and --exclude patterns explored
FilterPatterns ==
    {<<"a", "*">>, <<"*", "1">>, <<"*", "2">>, <<"a", "2">>, <<"d", "/", "*">>}

InitFilter ==
    /\ pc = "inputs"
    /\ args \in {Plain(<<(<<"{", "B", ",", "a", "}", "*">>), D_d>>, i, x) :
                    i \in SeqsUpTo(FilterPatterns, MaxFilters),
                    x \in SeqsUpTo(FilterPatterns, MaxFilters)}
    /\ stdin = <<>>
    /\ listing = <<F_a10, L_z, F_B1, D_d, F_a2, F_d10, F_d2>>
    /\ disk = [output |-> OutputFile(FALSE), dir |-> TRUE, tmp |-> <<>>]
    /\ InitLocals

SpecFilter == InitFilter /\ [][NextResolve]_vars

(***************************************************************************)
(* concatenate alone (lines 305-339), over 2 or 3 inputs of any page       *)
(* counts and page widths.                                                 *)
(***************************************************************************)
\* the page widths explored
Widths == {352, 528}

\* the inputs: for each, its number of pages and the width of its pages
InputShapes == UNION {[1..n -> (1..MaxPages) \X Widths] : n \in 2..3}

\* the temporary files holding inputs of the given shapes
InputFiles(shapes) ==
    [k \in 1..Len(shapes) |->
        Rendered(k, shapes[k][1], PixelSize(shapes[k][2], 816)).pages]

InitConcat ==
    /\ pc = "concat_begin"
    /\ args = Plain(<<F_a2, F_B1>>, <<>>, <<>>)
    /\ stdin = <<>>
    /\ listing = <<F_a10, L_z, F_B1, D_d, F_a2, F_d10, F_d2>>
    /\ \E shapes \in InputShapes :
          /\ disk = [output |-> OutputFile(FALSE), dir |-> TRUE,
                     tmp |-> InputFiles(shapes)]
          /\ temps = [k \in 1..Len(shapes) |-> k]
    /\ patterns = <<>>
    /\ paths = <<>>
    /\ candidates = <<>>
    /\ queue = <<>>
    /\ size = PixelSize(528, 816)
    /\ frames = [n |-> 0, src |-> TRUE]
    /\ site = "sbs"
    /\ idx = 1
    /\ rpc = "idle"
    /\ document = None
    /\ documents = <<>>
    /\ filler = [id |-> 0, page |-> blank(PageSize("letter landscape"))]
    /\ exc = ""
    /\ out = <<>>
    /\ exitCode = -1
    /\ interrupts = 0
    /\ answer = <<>>

NextConcat ==
    \/ ConcatBegin
    \/ ConcatMerge
    \/ ConcatCleanup

SpecConcat == InitConcat /\ [][NextConcat]_vars

(***************************************************************************)
(* Properties.                                                             *)
(***************************************************************************)
\* number of times x occurs in the sequence xs
Count(xs, x) == Cardinality({i \in 1..Len(xs) : xs[i] = x})

\* number of calls of render started so far
RenderCalls == Count(out, "Rendering...")

\* number of targets render found to be binary so far
BinarySkips == Count(out, "Could not render because binary.")

\* C1: in a side-by-side run without interrupts, no temporary file exists
\* any more once the process has ended, however it ended.
C1_TempsRemoved ==
    (pc = "exited" /\ site = "sbs" /\ interrupts = 0) => DOMAIN disk.tmp = {}

C3_ExitCodes ==
    pc = "exited"
        => /\ exitCode = 0 => (disk.output.fresh \/ args.version)
           /\ (exc # "" \/ Count(out, "Rendering cancelled.") > 0) => exitCode = 1

\* the strings of xs are in case-insensitive natural-sort order
NatOrdered(xs) ==
    \A i, j \in 1..Len(xs) :
        i < j => ~KeyLess(natsort_key(xs[j]), natsort_key(xs[i]))

\* the set of the elements of the sequence xs
Range(xs) == {xs[i] : i \in 1..Len(xs)}

\* the expressions whose glob results make up paths, in order: for each
\* non-empty pattern, the expressions of its brace expansion
Expressions ==
    Flatten([i \in 1..Len(patterns) |->
                IF patterns[i] = <<>> THEN <<>> ELSE braceexpand(patterns[i])])

\* the lengths of the consecutive runs of paths: one URL for a URL pattern,
\* then the matches of each of its expressions
RunLengths ==
    Flatten([i \in 1..Len(patterns) |->
                (IF IsURL(patterns[i]) THEN <<1>> ELSE <<>>)
                \o (IF patterns[i] = <<>> THEN <<>>
                    ELSE [k \in 1..Len(braceexpand(patterns[i])) |->
                            Len(glob(braceexpand(patterns[i])[k], listing))])])

\* sum of the first n elements of a sequence of numbers
RECURSIVE SumTo(_, _)
SumTo(ns, n) == IF n = 0 THEN 0 ELSE SumTo(ns, n - 1) + ns[n]

\* the r-th run of paths
Run(r) == SubSeq(paths, SumTo(RunLengths, r - 1) + 1, SumTo(RunLengths, r))

\* the file targets of the queue
FileTargets == SelectSeq(queue, isfile)

\* C4 as claimed: the file targets of the resolved queue are in
\* case-insensitive natural-sort order over the whole queue.
C4_WholeQueueSorted == pc = "validate" => NatOrdered(FileTargets)

\* C4 as amended: paths is the concatenation, in the order of the patterns and
\* of the expressions of their brace expansions, of runs that are each in
\* case-insensitive natural-sort order whatever order the filesystem lists its
\* entries in; the files walked from a directory are in that order too; and the
\* whole queue is in that order when it comes from one expression that matched
\* files only.
C4_RunsSorted ==
    pc \in {"candidates", "filter", "validate"}
        => /\ Len(paths) = SumTo(RunLengths, Len(RunLengths))
           /\ \A r \in 1..Len(RunLengths) : NatOrdered(Run(r))
           /\ pc # "candidates" /\ Len(paths) = 1 /\ isdir(paths[1])
                 => NatOrdered(candidates) /\ Range(candidates) = DirEntries
           /\ (pc = "validate" /\ Len(Expressions) = 1
                 /\ \A i \in 1..Len(paths) : isfile(paths[i]))
                 => NatOrdered(queue)

\* C4 witness: one expression matched a2 and a10, the filesystem listed a10 first,
\* and the queue holds a2 before a10.
C4_Witness ==
    /\ pc = "validate"
    /\ Len(Expressions) = 1
    /\ glob(Expressions[1], listing) = <<F_a10, F_a2>>
    /\ queue = <<F_a2, F_a10>>

\* the pattern, with "*" standing for any run of characters, matches all of s
RECURSIVE WholeMatch(_, _)
WholeMatch(pattern, s) ==
    IF pattern = <<>> THEN s = <<>>
    ELSE IF Head(pattern) = "*"
         THEN WholeMatch(Tail(pattern), s) \/ (s # <<>> /\ WholeMatch(pattern, Tail(s)))
         ELSE s # <<>> /\ Head(s) = Head(pattern) /\ WholeMatch(Tail(pattern), Tail(s))

\* the candidate passes the filters as C5 states them
Passes(c) ==
    /\ args.include = <<>>
          \/ \E i \in 1..Len(args.include) : WholeMatch(args.include[i], c)
    /\ ~\E x \in 1..Len(args.exclude) : WholeMatch(args.exclude[x], c)

\* C5: the queue holds exactly the candidates whose whole path matches some
\* include pattern (or any, without include patterns) and no exclude pattern.
C5_FilterExact == pc = "validate" => queue = SelectSeq(candidates, Passes)

\* the pages of the inputs of concatenate
InputPages == [k \in 1..Len(temps) |-> disk.tmp[temps[k]]]

\* what C6 expects at position k of output page i: page i of input k, else the
\* blank page
Expected(i, k) ==
    IF i <= Len(InputPages[k]) THEN [src |-> k, page |-> i] ELSE [src |-> 0, page |-> 1]

\* the width of what stands at position k of output page i: that of page i of
\* input k, else that of the first page of the first input
WidthAt(i, k) ==
    IF i <= Len(InputPages[k]) THEN InputPages[k][i].w ELSE InputPages[1][1].w

\* sum of WidthAt(i, k) for k up to n
RECURSIVE WidthTo(_, _)
WidthTo(i, n) == IF n = 0 THEN 0 ELSE WidthTo(i, n - 1) + WidthAt(i, n)

\* C6: the output of concatenate has as many pages as its longest input, and its
\* page i shows, from left to right in input order, page i of each input, with a
\* blank page of the size of the first input's first page for each input that has
\* no page i.
C6_Pages ==
    pc \in {"concat_cleanup", "sbs_finish"}
        => /\ \A k \in 1..Len(temps) : Len(disk.output.pages) >= Len(InputPages[k])
           /\ \E k \in 1..Len(temps) : Len(disk.output.pages) = Len(InputPages[k])
           /\ filler.page.w = InputPages[1][1].w
           /\ filler.page.h = InputPages[1][1].h
           /\ \A i \in 1..Len(disk.output.pages) :
                 LET content == disk.output.pages[i].content
                 IN /\ Len(content) = Len(temps)
                    /\ \A k \in 1..Len(temps) :
                          /\ content[k].src = Expected(i, k).src
                          /\ content[k].page = Expected(i, k).page
                          /\ content[k].x = WidthTo(i, k - 1)

\* C6 witness: three inputs, the second of which has run out of pages on the
\* last page of the output.
C6_Witness ==
    /\ pc = "concat_cleanup"
    /\ Len(temps) = 3
    /\ Len(InputPages[2]) < Len(disk.output.pages)
    /\ Len(InputPages[3]) = Len(disk.output.pages)
    /\ Len(InputPages[1]) = Len(disk.output.pages)

\* sum of the widths of the first pages of the first n inputs
RECURSIVE InputWidths(_)
InputWidths(n) == IF n = 0 THEN 0 ELSE InputWidths(n - 1) + InputPages[n][1].w

\* C7 as claimed: every page of the output of concatenate over three inputs is
\* as wide as the widths of the three inputs' pages added up.
C7_WidthIsSum ==
    (pc \in {"concat_cleanup", "sbs_finish"} /\ Len(temps) = 3)
        => \A i \in 1..Len(disk.output.pages) :
              disk.output.pages[i].w = InputWidths(Len(temps))

\* C7 as amended: page i of the output is as wide as, added up over the inputs,
\* the input's page i where it has one and the first input's first page where
\* it has none; so it is the sum of the inputs' widths wherever no input has
\* run out, and everywhere when the inputs that run out are as wide as the first.
C7_WidthWithFiller ==
    pc \in {"concat_cleanup", "sbs_finish"}
        => \A i \in 1..Len(disk.output.pages) :
              /\ disk.output.pages[i].w = WidthTo(i, Len(temps))
              /\ (\A k \in 1..Len(temps) :
                      i <= Len(InputPages[k]) \/ InputPages[k][1].w = InputPages[1][1].w)
                    => disk.output.pages[i].w = InputWidths(Len(temps))

\* C7 witness: three inputs, the second narrower than the first and out of pages
\* on the last page of the output.
C7_Witness ==
    /\ pc = "concat_cleanup"
    /\ Len(temps) = 3
    /\ InputPages[2][1].w < InputPages[1][1].w
    /\ Len(InputPages[2]) < Len(disk.output.pages)

\* main is on the side-by-side path
SideBySidePath == pc = "sbs_setup" \/ site = "sbs"

\* main is on the path that renders one page as a browser would
BrowserPath == site = "browser"

\* the positions of main before the count checks of lines 147-161 are done
BeforeCounts == {"parse", "inputs", "glob", "candidates", "filter", "validate"}

\* C8: on the side-by-side path, reached by --side-by-side or by a frameset, the
\* queue holds 2 or 3 targets; on the single-page browser path it holds 1; and a
\* queue of any other length under those flags ends the run in an error, with
\* exit code 1, before render is called.
C8_QueueCounts ==
    /\ SideBySidePath => Len(queue) \in {2, 3}
    /\ BrowserPath => Len(queue) = 1
    /\ (pc \notin BeforeCounts /\ frames.n = 0
           /\ CountError(args.side_by_side, args.browser, Len(queue)) # "")
          => /\ pc \in {"raised", "exited"}
             /\ RenderCalls = 0
             /\ pc = "exited" => exitCode = 1

\* C8 witness: a frameset of three frames was found in browser mode and its
\* frames are queued on the side-by-side path.
C8_Witness ==
    /\ pc = "sbs_mkstemp"
    /\ args.browser
    /\ frames.n = 3
    /\ Len(queue) = 3

\* C9: once a SIGINT has been delivered the process has ended with exit code 1,
\* the last things printed being a blank line and "Rendering cancelled.".
C9_InterruptEnds ==
    interrupts > 0
        => /\ pc = "exited"
           /\ exitCode = 1
           /\ SubSeq(out, Len(out) - 1, Len(out)) = <<"", "Rendering cancelled.">>

\* C10: once the missing parent directory has been created at the "Create?"
\* prompt, main has left the prompt loop.
C10_LeavesPrompt == (pc = "create_prompt") => ~disk.dir

\* the output file was there before the run and has not been written since
Untouched == disk.output = OutputFile(TRUE)

\* the line last read at a prompt is y or yes, in any case of letters
AnsweredYes == LowerStr(answer) \in {<<"y">>, <<"y", "e", "s">>}

\* the line last read at a prompt is n or no, in any case of letters
AnsweredNo == LowerStr(answer) \in {<<"n">>, <<"n", "o">>}

\* C11: an output file that exists is written only with --force or after the
\* answer y/yes to the Overwrite prompt; without --force the check of a run
\* without positional INPUT raises "Output exists." and never prompts; at the
\* prompt n/no cancels the run, y/yes goes on, any other line asks again, and
\* none of these steps changes the file.
C11_OverwriteConfirmed ==
    [][/\ (disk.output.exists /\ disk'.output # disk.output)
            => (args.force \/ AnsweredYes)
       /\ (pc = "overwrite" /\ interrupts' = interrupts /\ pc' # pc)
            => /\ disk' = disk
               /\ IF args.force \/ ~disk.output.exists
                  THEN pc' = "mkdir"
                  ELSE IF args.INPUT = <<>>
                       THEN pc' = "raised" /\ exc' = "Output exists."
                       ELSE pc' = "overwrite_prompt"
       /\ (pc = "overwrite_prompt" /\ interrupts' = interrupts)
            => /\ disk' = disk
               /\ ~args.force /\ args.INPUT # <<>> /\ Untouched
               /\ IF LowerStr(answer') \in {<<"y">>, <<"y", "e", "s">>}
                  THEN pc' = "mkdir" /\ out' = out
                  ELSE IF LowerStr(answer') \in {<<"n">>, <<"n", "o">>}
                       THEN /\ pc' = "exited"
                            /\ out' = Append(out, "Rendering cancelled.")
                       ELSE pc' = "overwrite_prompt" /\ out' = out
       /\ (pc = "raised" /\ exc = "Output exists." /\ interrupts' = interrupts)
            => /\ pc' = "exited"
               /\ Untouched /\ disk' = disk
               /\ out' = out \o <<"Output exists.", "Rendering cancelled.">>
      ]_vars

\* the run has written over the output file after the answer y/yes
C11_Witness ==
    /\ pc = "exited"
    /\ ~args.force
    /\ args.INPUT # <<>>
    /\ AnsweredYes
    /\ disk.dir
    /\ disk.output.fresh
    /\ exitCode = 0

====
